---- MODULE Spec2Model ----
(***************************************************************************)
(* A model of futures-rs/framed: the ReadBuf buffer view, the adapter      *)
(* functions poll_read_buf / poll_write_buf (src/src/util.rs), the         *)
(* Decoder contract with its default decode_eof (src/src/codec.rs) and     *)
(* BytesCodec (src/src/bytes_codec.rs).                                    *)
(*                                                                         *)
(* Bytes are strings; a memory cell holds a byte, "zero" (the byte written *)
(* by write_bytes(0, ..)) or "uninit" (memory never given a value).        *)
(* The I/O objects follow the AsyncRead / AsyncWrite contracts: a read     *)
(* reports at most the length of the slice it was handed, a write at most  *)
(* the number of bytes it was offered.                                     *)
(***************************************************************************)
EXTENDS Integers, Sequences, FiniteSets, TLC

VARIABLES
    rbuf,       \* the growable buffer poll_read_buf fills (a BufMut)
    input,      \* bytes the readable I/O object has still to deliver
    rcall,      \* the last poll_read_buf call: its arguments and its result
    wbuf,       \* the buffer poll_write_buf drains (a Buf)
    written,    \* bytes the writable I/O object has accepted, in order
    wcall,      \* the last poll_write_buf call
    toSend,     \* frames not yet handed to encode
    encoded,    \* concatenation of the frames handed to encode so far
    dcall,      \* the last decode_eof call
    framed,     \* the framing engine's read state: codec, eof, is_readable, failed
    stream,     \* the whole byte string the engine's I/O object delivers
    chunks,     \* the sizes of the reads that delivered bytes to the engine
    yielded,    \* the frames "get next frame" has returned so far
    pcall,      \* the last step of "get next frame"
    view,       \* a ReadBuf over a borrowed region
    bcall       \* the last call of a ReadBuf method

vars == <<rbuf, input, rcall, wbuf, written, wcall, toSend, encoded, dcall,
          framed, stream, chunks, yielded, pcall, view, bcall>>

viewVars == <<view, bcall>>

engVars == <<framed, stream, chunks, yielded, pcall>>

readVars == <<rbuf, input, rcall>>
writeVars == <<wbuf, written, wcall, toSend, encoded>>

------------------------------------------------------------------------------
(* Bounds of the model *)

MaxInput == 3       \* longest byte string the readable I/O object delivers
MaxSpare == 2       \* largest spare capacity of an initial buffer
MaxData == 1        \* most bytes already buffered in an initial buffer
GrowBy == 2         \* cells a growable buffer reserves when it is full
MaxAccept == 3      \* a partial write accepts at most this many bytes, or all but one

------------------------------------------------------------------------------
(* Values *)

Byte == {"a", "nl"}
ZERO == "zero"
UNINIT == "uninit"
Cell == Byte \cup {ZERO, UNINIT}

BSeq(S, n) == UNION {[1..k -> S] : k \in 0..n}

Rep(x, n) == [i \in 1..n |-> x]

Min(a, b) == IF a <= b THEN a ELSE b

Drop(s, n) == SubSeq(s, n + 1, Len(s))
Take(s, n) == SubSeq(s, 1, n)

\* Poll<io::Result<usize>>
Pending == [tag |-> "pending", n |-> 0, e |-> "none"]
ReadyOk(n) == [tag |-> "ok", n |-> n, e |-> "none"]
ReadyErr(e) == [tag |-> "err", n |-> 0, e |-> e]

IoErrors == {"EIO"}

------------------------------------------------------------------------------
(* ReadBuf, src/src/util.rs:29-107 *)

ReadBuf_uninit(buf) == [buf |-> buf, filled |-> 0, initialized |-> 0]

capacity(rb) == Len(rb.buf)

filled(rb) == SubSeq(rb.buf, 1, rb.filled)

remaining(rb) == capacity(rb) - rb.filled

\* initialize_unfilled_to without the test of initialized against end.
initialize_unfilled_to_narrow(rb, n) ==
    IF ~(Len(rb.buf) - rb.filled >= n)
    THEN [rb |-> rb, slice |-> <<>>, panic |-> TRUE, wrote |-> {}]
    ELSE LET end == rb.filled + n
             rb1 == [rb EXCEPT
                            !.buf = [i \in 1..Len(rb.buf) |->
                                        IF i > rb.initialized /\ i <= end
                                        THEN ZERO ELSE rb.buf[i]],
                            !.initialized = end]
         IN [rb |-> rb1, slice |-> SubSeq(rb1.buf, rb.filled + 1, end), panic |-> FALSE,
             wrote |-> (rb.initialized + 1)..end]

\* initialize_unfilled_to without the assert: the request is cut to fit.
initialize_unfilled_to_unchecked(rb, n) ==
    LET end == Min(rb.filled + n, Len(rb.buf))
        rb1 == IF rb.initialized < end
               THEN [rb EXCEPT
                       !.buf = [i \in 1..Len(rb.buf) |->
                                   IF i > rb.initialized /\ i <= end
                                   THEN ZERO ELSE rb.buf[i]],
                       !.initialized = end]
               ELSE rb
    IN [rb |-> rb1, slice |-> SubSeq(rb1.buf, rb.filled + 1, end), panic |-> FALSE,
        wrote |-> IF rb.initialized < end THEN (rb.initialized + 1)..end ELSE {}]

\* initialize_unfilled_to without the write_bytes.
initialize_unfilled_to_nozero(rb, n) ==
    IF ~(Len(rb.buf) - rb.filled >= n)
    THEN [rb |-> rb, slice |-> <<>>, panic |-> TRUE, wrote |-> {}]
    ELSE LET end == rb.filled + n
             rb1 == IF rb.initialized < end THEN [rb EXCEPT !.initialized = end] ELSE rb
         IN [rb |-> rb1, slice |-> SubSeq(rb1.buf, rb.filled + 1, end), panic |-> FALSE,
             wrote |-> {}]

\* The result: the view afterwards, the slice handed out, whether the
\* assert!(self.remaining() >= n) failed, and the offsets write_bytes zeroed.
initialize_unfilled_to(rb, n) ==
    IF ~(remaining(rb) >= n)
    THEN [rb |-> rb, slice |-> <<>>, panic |-> TRUE, wrote |-> {}]
    ELSE LET end == rb.filled + n
             rb1 == IF rb.initialized < end
                    THEN [rb EXCEPT
                            !.buf = [i \in 1..Len(rb.buf) |->
                                        IF i > rb.initialized /\ i <= end
                                        THEN ZERO ELSE rb.buf[i]],
                            !.initialized = end]
                    ELSE rb
         IN [rb |-> rb1, slice |-> SubSeq(rb1.buf, rb.filled + 1, end), panic |-> FALSE,
             wrote |-> IF rb.initialized < end THEN (rb.initialized + 1)..end ELSE {}]

initialize_unfilled(rb) == initialize_unfilled_to(rb, remaining(rb))

------------------------------------------------------------------------------
(* The BufMut handed to poll_read_buf: data is the logical content, spare  *)
(* the cells of its spare capacity, growable says whether the buffer       *)
(* reserves more memory by itself (BytesMut) or is of fixed size.          *)

\* A check for spare capacity that never says "full".
has_remaining_mut_always(buf) == TRUE

has_remaining_mut(buf) == buf.growable \/ Len(buf.spare) > 0

\* chunk_mut: the spare tail; a growable buffer that is full reserves first.
chunk_mut(buf) ==
    IF buf.growable /\ Len(buf.spare) = 0
    THEN [buf EXCEPT !.spare = Rep(UNINIT, GrowBy)]
    ELSE buf

\* An advance by the length of the slice offered, not by the bytes read.
advance_mut_whole(buf, n) ==
    [buf EXCEPT !.data = buf.data \o buf.spare, !.spare = <<>>]

advance_mut(buf, n) ==
    [buf EXCEPT !.data = buf.data \o Take(buf.spare, n),
                !.spare = Drop(buf.spare, n)]

\* The slice poll_read_buf hands to the I/O object: the whole chunk, zeroed.
ReadOffer(buf) ==
    IF has_remaining_mut(buf) THEN Len(chunk_mut(buf).spare) ELSE 0

\* What one poll_read of the I/O object can do with a slice of len bytes.
\* out.bytes are the bytes it writes at the start of the slice.
ReadOutcomes(len) ==
    {[tag |-> "pending", bytes |-> <<>>, e |-> "none"]}
    \cup {[tag |-> "err", bytes |-> <<>>, e |-> e] : e \in IoErrors}
    \cup {[tag |-> "ok", bytes |-> Take(input, n), e |-> "none"] :
            n \in {k \in 0..Min(len, Len(input)) : k = 0 => input = <<>>}}

\* poll_read_buf, src/src/util.rs:129-163.  out is the outcome of the one
\* io.poll_read the call can make.  polls counts the I/O attempts made.
\* use tells what the call did with its ReadBuf: the chunk it was created
\* over, the result of filled(), the view after initialize_unfilled(), the
\* slice handed to the I/O object and the offsets that were zeroed.
poll_read_buf(buf, out) ==
    IF ~has_remaining_mut(buf)
    THEN [buf |-> buf, ret |-> ReadyOk(0), polls |-> 0, offered |-> 0,
          use |-> [chunk |-> <<>>, fview |-> <<>>, view |-> ReadBuf_uninit(<<>>),
                   slice |-> <<>>, wrote |-> {}]]
    ELSE LET b1 == chunk_mut(buf)
             rb == ReadBuf_uninit(b1.spare)
             iu == initialize_unfilled(rb)
             mut_buf == iu.slice
             use == [chunk |-> b1.spare, fview |-> filled(rb), view |-> iu.rb,
                     slice |-> mut_buf, wrote |-> iu.wrote]
             \* the slice after io.poll_read wrote into it
             got == [i \in 1..Len(mut_buf) |->
                        IF i <= Len(out.bytes) THEN out.bytes[i] ELSE mut_buf[i]]
             b2 == [b1 EXCEPT !.spare = mut_buf]
             b3 == [b1 EXCEPT !.spare = got]
         IN IF out.tag = "pending"
            THEN [buf |-> b2, ret |-> Pending, polls |-> 1, offered |-> Len(mut_buf),
                  use |-> use]
            ELSE IF out.tag = "err"
            THEN [buf |-> b2, ret |-> ReadyErr(out.e), polls |-> 1, offered |-> Len(mut_buf),
                  use |-> use]
            ELSE LET n == Len(out.bytes)
                 IN [buf |-> advance_mut(b3, n), ret |-> ReadyOk(n), polls |-> 1,
                     offered |-> Len(mut_buf), use |-> use]

------------------------------------------------------------------------------
(* The Buf handed to poll_write_buf, from its read cursor on: bytes are    *)
(* the unread bytes, ends[i] the offset in bytes at which its i-th         *)
(* contiguous segment ends (segments are not empty).  A BytesMut is a Buf  *)
(* of at most one segment.                                                 *)

EmptyBuf == [bytes |-> <<>>, ends |-> <<>>]

\* A check for unread bytes that never says "empty".
has_remaining_always(buf) == TRUE

has_remaining(buf) == Len(buf.bytes) > 0

\* The first k segments of buf.
FirstSegs(buf, k) ==
    IF k = 0 THEN EmptyBuf
    ELSE [bytes |-> Take(buf.bytes, buf.ends[k]), ends |-> Take(buf.ends, k)]

\* A gather that ignores the length of the slice array.
chunks_vectored_nocap(buf, max) == buf

\* A gather that gives up on a buffer of more segments than slices.
chunks_vectored_giveup(buf, max) == IF Len(buf.ends) > max THEN EmptyBuf ELSE buf

\* Buf::chunks_vectored(&mut slices): fills at most Len(slices) slices with
\* the segments in order and returns how many it filled.
chunks_vectored(buf, max) == FirstSegs(buf, Min(Len(buf.ends), max))

\* Buf::advance(n): moves the read cursor over n bytes; the segments read
\* to their end are gone, the one the cursor stops in loses its start.
advance(buf, n) ==
    LET left == SelectSeq(buf.ends, LAMBDA e : e > n)
    IN [bytes |-> Drop(buf.bytes, n),
        ends |-> [i \in 1..Len(left) |-> left[i] - n]]

MAX_BUFS == 64

\* The byte counts a write offered total bytes may report: a few bytes, or
\* all or all but one of them.
AcceptCounts(total) == {n \in 0..total : n <= MaxAccept \/ n >= total - 1}

\* What one poll_write_vectored can do when offered the given slices.
WriteOutcomes(slices) ==
    {[tag |-> "pending", n |-> 0, e |-> "none"]}
    \cup {[tag |-> "err", n |-> 0, e |-> e] : e \in IoErrors}
    \cup {[tag |-> "ok", n |-> n, e |-> "none"] : n \in AcceptCounts(Len(slices.bytes))}

WriteOffer(buf) == IF has_remaining(buf) THEN chunks_vectored(buf, MAX_BUFS) ELSE EmptyBuf

\* poll_write_buf advancing the cursor before it looks at the outcome.
poll_write_buf_eager(buf, out) ==
    IF Len(buf.bytes) = 0
    THEN [buf |-> buf, ret |-> ReadyOk(0), polls |-> 0, offered |-> EmptyBuf]
    ELSE LET slices == FirstSegs(buf, Min(Len(buf.ends), MAX_BUFS))
             moved == advance(buf, Len(slices.bytes))
         IN IF out.tag = "pending"
            THEN [buf |-> moved, ret |-> Pending, polls |-> 1, offered |-> slices]
            ELSE IF out.tag = "err"
            THEN [buf |-> moved, ret |-> ReadyErr(out.e), polls |-> 1, offered |-> slices]
            ELSE [buf |-> advance(buf, out.n), ret |-> ReadyOk(out.n), polls |-> 1,
                  offered |-> slices]

\* poll_write_buf, src/src/util.rs:165-183.
poll_write_buf(buf, out) ==
    IF ~has_remaining(buf)
    THEN [buf |-> buf, ret |-> ReadyOk(0), polls |-> 0, offered |-> EmptyBuf]
    ELSE LET slices == chunks_vectored(buf, MAX_BUFS)
         IN IF out.tag = "pending"
            THEN [buf |-> buf, ret |-> Pending, polls |-> 1, offered |-> slices]
            ELSE IF out.tag = "err"
            THEN [buf |-> buf, ret |-> ReadyErr(out.e), polls |-> 1, offered |-> slices]
            ELSE [buf |-> advance(buf, out.n), ret |-> ReadyOk(out.n), polls |-> 1,
                  offered |-> slices]

------------------------------------------------------------------------------
(* Decoder, src/src/codec.rs:33-161, and BytesCodec, src/src/bytes_codec.rs *)

Some(f) == [tag |-> "some", frame |-> f, e |-> "none"]
None == [tag |-> "none", frame |-> <<>>, e |-> "none"]
Err(e) == [tag |-> "err", frame |-> <<>>, e |-> e]

TRAILING == "bytes remaining on stream"
DecodeErrors == {"malformed"}

\* A decode that hands out the buffered bytes one at a time.
BytesCodec_decode_one(data) ==
    IF data # <<>>
    THEN [data |-> Drop(data, 1), ret |-> Some(Take(data, 1))]
    ELSE [data |-> data, ret |-> None]

\* BytesCodec::decode, src/src/bytes_codec.rs:35-42
BytesCodec_decode(data) ==
    IF data # <<>>
    THEN [data |-> Drop(data, Len(data)), ret |-> Some(Take(data, Len(data)))]
    ELSE [data |-> data, ret |-> None]

\* An encode that puts the frame in front of the bytes already buffered.
BytesCodec_encode_front(frame, buf) ==
    IF frame = <<>> THEN buf
    ELSE [bytes |-> frame \o buf.bytes, ends |-> <<Len(buf.bytes) + Len(frame)>>]

\* BytesCodec::encode, src/src/bytes_codec.rs:48-52 and :58-62: put appends
\* the bytes of the frame at the tail of the buffer, a BytesMut.
BytesCodec_encode(frame, buf) ==
    IF frame = <<>> THEN buf
    ELSE [bytes |-> buf.bytes \o frame, ends |-> <<Len(buf.bytes) + Len(frame)>>]

\* A line-splitting Decoder: the bytes before the first newline are the
\* frame, and they and the newline leave the buffer; without a newline it
\* needs more data.  It keeps the default decode_eof.
LinesCodec_decode(data) ==
    IF \E i \in 1..Len(data) : data[i] = "nl"
    THEN LET i == CHOOSE i \in 1..Len(data) :
                    data[i] = "nl" /\ \A j \in 1..(i - 1) : data[j] # "nl"
         IN [data |-> Drop(data, i), ret |-> Some(Take(data, i - 1))]
    ELSE [data |-> data, ret |-> None]

\* Any implementation of Decoder::decode (codec.rs:122): it removes some
\* prefix of the buffer and returns a frame, Ok(None) or an error.  ch is
\* the implementation's decision for this call.
DecodeChoices(data) ==
    {[tag |-> t, k |-> k, e |-> e] :
        t \in {"some", "none", "err"}, k \in 0..Len(data), e \in DecodeErrors}

\* The decision handed to a codec that has none to make.
NoChoice == [tag |-> "none", k |-> 0, e |-> "malformed"]

Codecs == {"any", "bytes", "lines"}

decode(codec, data, ch) ==
    IF codec = "bytes" THEN BytesCodec_decode(data)
    ELSE IF codec = "lines" THEN LinesCodec_decode(data)
    ELSE [data |-> Drop(data, ch.k),
          ret |-> IF ch.tag = "some" THEN Some(Take(data, ch.k))
                  ELSE IF ch.tag = "none" THEN None
                  ELSE Err(ch.e)]

\* A decode_eof that reports the end of the frames whatever is left.
decode_eof_silent(codec, data, ch) ==
    LET d == decode(codec, data, ch)
    IN IF d.ret.tag = "err"
       THEN [data |-> d.data, ret |-> d.ret, decodes |-> 1]
       ELSE IF d.ret.tag = "some"
       THEN [data |-> d.data, ret |-> Some(d.ret.frame), decodes |-> 1]
       ELSE [data |-> d.data, ret |-> None, decodes |-> 1]

\* Decoder::decode_eof, the default method, src/src/codec.rs:142-153.
decode_eof(codec, data, ch) ==
    LET d == decode(codec, data, ch)
    IN IF d.ret.tag = "err"
       THEN [data |-> d.data, ret |-> d.ret, decodes |-> 1]
       ELSE IF d.ret.tag = "some"
       THEN [data |-> d.data, ret |-> Some(d.ret.frame), decodes |-> 1]
       ELSE IF d.data = <<>>
       THEN [data |-> d.data, ret |-> None, decodes |-> 1]
       ELSE [data |-> d.data, ret |-> Err(TRAILING), decodes |-> 1]

------------------------------------------------------------------------------
(* The adapter functions and the decoder driven call by call *)

MaxFrames == 3      \* most frames submitted to the write side
MaxSegs == 66       \* most segments of an initial write buffer

NoCall == [made |-> FALSE]

InitBufs ==
    {[data |-> d, spare |-> Rep(UNINIT, s), growable |-> g] :
        d \in BSeq(Byte, MaxData), s \in 0..MaxSpare, g \in BOOLEAN}

\* The frames submitted to the write side.
FrameSet == {<<>>, <<"a">>, <<"nl", "a">>}

\* An initial write buffer of ns segments: every third one of two bytes,
\* the others of one.
SegBuf(ns) ==
    [bytes |-> [j \in 1..(ns + ns \div 3) |-> IF j % 2 = 1 THEN "a" ELSE "nl"],
     ends |-> [i \in 1..ns |-> i + i \div 3]]

SegCounts == {1, 2, MaxSegs - 2, MaxSegs - 1, MaxSegs}

IdleWrite ==
    /\ wbuf = EmptyBuf
    /\ written = <<>>
    /\ wcall = NoCall
    /\ toSend = <<>>
    /\ encoded = <<>>

IdleView ==
    /\ view = [buf |-> <<>>, filled |-> 0, initialized |-> 0]
    /\ bcall = [made |-> FALSE]

IdleEngine ==
    /\ IdleView
    /\ framed = [codec |-> "bytes", eof |-> FALSE, is_readable |-> FALSE, failed |-> "none"]
    /\ stream = <<>>
    /\ chunks = <<>>
    /\ yielded = <<>>
    /\ pcall = NoCall

IdleRead ==
    /\ rbuf = [data |-> <<>>, spare |-> <<>>, growable |-> FALSE]
    /\ input = <<>>
    /\ rcall = NoCall
    /\ dcall = NoCall
    /\ IdleEngine

InitRead ==
    /\ rbuf \in InitBufs
    /\ input \in BSeq(Byte, MaxInput)
    /\ rcall = NoCall
    /\ dcall = NoCall
    /\ IdleEngine
    /\ IdleWrite

InitWrite ==
    /\ IdleRead
    /\ written = <<>>
    /\ wcall = NoCall
    /\ \/ /\ wbuf = EmptyBuf
          /\ toSend \in BSeq(FrameSet, MaxFrames)
          /\ encoded = <<>>
       \/ /\ \E ns \in SegCounts : wbuf = SegBuf(ns)
          /\ toSend = <<>>
          /\ encoded = wbuf.bytes

Init == InitRead \/ InitWrite

\* One call of poll_read_buf(io, cx, &mut rbuf).
ReadInto ==
    \E out \in ReadOutcomes(ReadOffer(rbuf)) :
        LET r == poll_read_buf(rbuf, out)
        IN /\ rbuf' = r.buf
           /\ input' = IF r.polls = 1 /\ out.tag = "ok"
                       THEN Drop(input, Len(out.bytes)) ELSE input
           /\ rcall' = [made |-> TRUE, pre |-> rbuf, out |-> out, ret |-> r.ret,
                        polls |-> r.polls, offered |-> r.offered, post |-> r.buf,
                        consumed |-> Len(input) - Len(input'), use |-> r.use]
           /\ UNCHANGED <<dcall, writeVars, engVars, viewVars>>

\* One call of codec.decode_eof(&mut rbuf) on a BytesMut.
DecodeEof ==
    /\ rbuf.growable
    /\ \E codec \in Codecs, ch \in DecodeChoices(rbuf.data) :
        LET r == decode_eof(codec, rbuf.data, ch)
            d == decode(codec, rbuf.data, ch)
        IN /\ rbuf' = [rbuf EXCEPT !.data = r.data]
           /\ dcall' = [made |-> TRUE, codec |-> codec, pre |-> rbuf.data,
                        decoded |-> d, ret |-> r.ret, decodes |-> r.decodes,
                        post |-> r.data]
           /\ UNCHANGED <<input, rcall, writeVars, engVars, viewVars>>

\* One call of codec.encode(frame, &mut wbuf) with the next frame.
Encode ==
    /\ toSend # <<>>
    /\ wbuf' = BytesCodec_encode(Head(toSend), wbuf)
    /\ encoded' = encoded \o Head(toSend)
    /\ toSend' = Tail(toSend)
    /\ UNCHANGED <<written, wcall, readVars, dcall, engVars, viewVars>>

\* One call of poll_write_buf(io, cx, &mut wbuf).
WriteFromOut(out) ==
    LET r == poll_write_buf(wbuf, out)
    IN /\ wbuf' = r.buf
       /\ written' = IF r.polls = 1 /\ out.tag = "ok"
                     THEN written \o Take(r.offered.bytes, out.n) ELSE written
       /\ wcall' = [made |-> TRUE, pre |-> wbuf, out |-> out, ret |-> r.ret,
                    polls |-> r.polls, offered |-> r.offered, post |-> r.buf]
       /\ UNCHANGED <<toSend, encoded, readVars, dcall, engVars, viewVars>>

WriteFrom == \E out \in WriteOutcomes(WriteOffer(wbuf)) : WriteFromOut(out)

Next == ReadInto \/ Encode \/ WriteFrom

Spec == Init /\ [][Next]_vars

\* decode_eof applied to every buffer content by every decoder.
InitDecode ==
    /\ \E d \in BSeq(Byte, MaxInput) :
          rbuf = [data |-> d, spare |-> <<>>, growable |-> TRUE]
    /\ input = <<>>
    /\ rcall = NoCall
    /\ dcall = NoCall
    /\ IdleEngine
    /\ IdleWrite

NextDecode == DecodeEof

SpecDecode == InitDecode /\ [][NextDecode]_vars

\* A flush of a buffer of more than MAX_BUFS segments: write_from is called
\* again and again; the I/O object is pending at will, and whenever it is
\* ready it accepts at least one byte.
InitDrain ==
    /\ IdleRead
    /\ written = <<>>
    /\ wcall = NoCall
    /\ \E ns \in {MaxSegs - 1, MaxSegs} : wbuf = SegBuf(ns)
    /\ toSend = <<>>
    /\ encoded = wbuf.bytes

WritePending ==
    \E out \in {o \in WriteOutcomes(WriteOffer(wbuf)) : o.tag = "pending"} :
        WriteFromOut(out)

WriteAccept ==
    \E out \in {o \in WriteOutcomes(WriteOffer(wbuf)) : o.tag = "ok" /\ o.n >= 1} :
        WriteFromOut(out)

NextDrain == WritePending \/ WriteAccept

SpecDrain == InitDrain /\ [][NextDrain]_vars /\ WF_vars(WriteAccept)

------------------------------------------------------------------------------
(* BytesCodec end to end: frames are encoded into a BytesMut, written with *)
(* poll_write_buf to a pipe, read from the pipe with poll_read_buf into a  *)
(* BytesMut and decoded; when the read reports the end of the pipe, the    *)
(* rest is decoded with decode_eof.  stream is the concatenation of all    *)
(* the frames, input the bytes in the pipe.                                *)

MaxPipe == 2        \* most frames sent through the pipe

RECURSIVE Flat(_)
Flat(fs) == IF fs = <<>> THEN <<>> ELSE Head(fs) \o Flat(Tail(fs))

InitPipe ==
    /\ toSend \in BSeq(FrameSet, MaxPipe)
    /\ stream = Flat(toSend)
    /\ wbuf = EmptyBuf
    /\ encoded = <<>>
    /\ written = <<>>
    /\ wcall = NoCall
    /\ input = <<>>
    /\ rbuf = [data |-> <<>>, spare |-> <<>>, growable |-> TRUE]
    /\ rcall = NoCall
    /\ dcall = NoCall
    /\ yielded = <<>>
    /\ framed = [codec |-> "bytes", eof |-> FALSE, is_readable |-> FALSE, failed |-> "none"]
    /\ chunks = <<>>
    /\ pcall = NoCall
    /\ IdleView

\* The writer has encoded and written everything.
WriterDone == toSend = <<>> /\ ~has_remaining(wbuf)

\* The reader has been told that the pipe is at its end.
SawEnd == rcall.made /\ rcall.ret = ReadyOk(0)

\* codec.encode(frame, &mut wbuf) with the next frame.
PipeEncode ==
    /\ toSend # <<>>
    /\ wbuf' = BytesCodec_encode(Head(toSend), wbuf)
    /\ encoded' = encoded \o Head(toSend)
    /\ toSend' = Tail(toSend)
    /\ wcall' = [made |-> TRUE, frame |-> Head(toSend), pre |-> wbuf, post |-> wbuf']
    /\ UNCHANGED <<written, readVars, dcall, engVars, viewVars>>

\* poll_write_buf(io, cx, &mut wbuf): what the pipe accepts is in the pipe.
PipeWrite ==
    \E out \in WriteOutcomes(WriteOffer(wbuf)) :
        LET r == poll_write_buf(wbuf, out)
            sent == IF r.polls = 1 /\ out.tag = "ok"
                    THEN Take(r.offered.bytes, out.n) ELSE <<>>
        IN /\ out.tag # "err"
           /\ wbuf' = r.buf
           /\ written' = written \o sent
           /\ input' = input \o sent
           /\ UNCHANGED <<toSend, encoded, wcall, rbuf, rcall, dcall, engVars, viewVars>>

\* poll_read_buf(io, cx, &mut rbuf): the pipe reports its end only when it
\* is empty and the writer is done.
PipeRead ==
    /\ ~SawEnd
    /\ \E out \in ReadOutcomes(ReadOffer(rbuf)) :
        LET r == poll_read_buf(rbuf, out)
        IN /\ out.tag # "err"
           /\ (out.tag = "ok" /\ out.bytes = <<>>) => WriterDone
           /\ rbuf' = r.buf
           /\ input' = Drop(input, Len(out.bytes))
           /\ rcall' = [made |-> TRUE, ret |-> r.ret, polls |-> r.polls]
           /\ UNCHANGED <<dcall, writeVars, engVars, viewVars>>

\* codec.decode(&mut rbuf) while the pipe is open, codec.decode_eof(&mut
\* rbuf) once its end was seen.
PipeDecode ==
    LET r == IF SawEnd THEN decode_eof("bytes", rbuf.data, NoChoice)
             ELSE decode("bytes", rbuf.data, NoChoice)
    IN /\ ~(dcall.made /\ dcall.eof /\ dcall.ret = None)
       /\ rbuf' = [rbuf EXCEPT !.data = r.data]
       /\ yielded' = IF r.ret.tag = "some" THEN Append(yielded, r.ret.frame) ELSE yielded
       /\ dcall' = [made |-> TRUE, eof |-> SawEnd, ret |-> r.ret]
       /\ UNCHANGED <<input, rcall, writeVars, framed, stream, chunks, pcall, viewVars>>

NextPipe == PipeEncode \/ PipeWrite \/ PipeRead \/ PipeDecode

SpecPipe == InitPipe /\ [][NextPipe]_vars

------------------------------------------------------------------------------
(* A ReadBuf driven method by method over a borrowed region, some of whose *)
(* cells may hold values from an earlier use.                              *)

MaxCap == 3         \* largest region a ReadBuf is created over

InitReadBuf ==
    /\ \E region \in BSeq({UNINIT, "a"}, MaxCap) : view = ReadBuf_uninit(region)
    /\ bcall = [made |-> FALSE]
    /\ rbuf = [data |-> <<>>, spare |-> <<>>, growable |-> FALSE]
    /\ input = <<>>
    /\ rcall = NoCall
    /\ dcall = NoCall
    /\ framed = [codec |-> "bytes", eof |-> FALSE, is_readable |-> FALSE, failed |-> "none"]
    /\ stream = <<>>
    /\ chunks = <<>>
    /\ yielded = <<>>
    /\ pcall = NoCall
    /\ IdleWrite

\* view.initialize_unfilled_to(n), also with an n beyond remaining().
InitializeUnfilledTo ==
    \E n \in 0..(MaxCap + 1) :
        LET r == initialize_unfilled_to(view, n)
        IN /\ view' = r.rb
           /\ bcall' = [made |-> TRUE, op |-> "initialize_unfilled_to", n |-> n,
                        pre |-> view, post |-> r.rb, slice |-> r.slice,
                        panic |-> r.panic, wrote |-> r.wrote]
           /\ UNCHANGED <<readVars, dcall, writeVars, engVars>>

\* view.initialize_unfilled()
InitializeUnfilled ==
    LET r == initialize_unfilled(view)
    IN /\ view' = r.rb
       /\ bcall' = [made |-> TRUE, op |-> "initialize_unfilled", n |-> remaining(view),
                    pre |-> view, post |-> r.rb, slice |-> r.slice,
                    panic |-> r.panic, wrote |-> r.wrote]
       /\ UNCHANGED <<readVars, dcall, writeVars, engVars>>

\* view.filled(), with rb.capacity() and rb.remaining()
Observe ==
    /\ bcall' = [made |-> TRUE, op |-> "filled", n |-> remaining(view),
                 pre |-> view, post |-> view, slice |-> filled(view),
                 panic |-> FALSE, wrote |-> {}]
    /\ UNCHANGED <<view, readVars, dcall, writeVars, engVars>>

NextReadBuf == InitializeUnfilledTo \/ InitializeUnfilled \/ Observe

SpecReadBuf == InitReadBuf /\ [][NextReadBuf]_vars

------------------------------------------------------------------------------
(* The framing engine's read side, "get next frame" (spec section 4.4).    *)
(* One step is one turn of its loop: at most one decode or decode_eof and  *)
(* at most one read_into.  A step that returns ends the call; a step that  *)
(* read bytes or met the end of the data goes round the loop again.        *)
(*                                                                         *)
(* After the sequence is exhausted (decode_eof returned Ok(None)) a later  *)
(* call is the caller's retry: it reads again and calls no decoder unless  *)
(* the read returned data (src/src/codec.rs:17-24 and :139-141, spec 4.4   *)
(* step 3).  After an error every call returns that error (spec 4.4 step 4 *)
(* and section 7).                                                         *)

MaxYield == 4       \* most frames the engine is asked for
MaxAnyInput == 2    \* longest byte string delivered to an arbitrary decoder

Example == <<"a", "b", "nl", "c", "d", "nl">>

EngineCodecs == {"lines", "bytes", "any"}

Frame(f) == [tag |-> "frame", frame |-> f, e |-> "none"]
EndOfSequence == [tag |-> "eos", frame |-> <<>>, e |-> "none"]
Failed(e) == [tag |-> "err", frame |-> <<>>, e |-> e]
Suspended == [tag |-> "pending", frame |-> <<>>, e |-> "none"]
Again == [tag |-> "loop", frame |-> <<>>, e |-> "none"]

\* Step 1: decode, or decode_eof once the end of the data was met.
engine_decode(st, data, ch) ==
    IF st.eof THEN decode_eof(st.codec, data, ch)
    ELSE [data |-> decode(st.codec, data, ch).data,
          ret |-> decode(st.codec, data, ch).ret, decodes |-> 1]

\* A zero-byte read that always starts the decode_eof path anew.
engine_after_read_respin(st, ret) ==
    IF ret.tag = "pending" THEN [st |-> st, ret |-> Suspended]
    ELSE IF ret.tag = "err"
    THEN [st |-> [st EXCEPT !.failed = ret.e], ret |-> Failed(ret.e)]
    ELSE IF ret.n = 0
    THEN [st |-> [st EXCEPT !.eof = TRUE, !.is_readable = TRUE], ret |-> Again]
    ELSE [st |-> [st EXCEPT !.is_readable = TRUE], ret |-> Again]

\* Step 2: the outcome of read_into for the engine's flags.
engine_after_read(st, ret) ==
    IF ret.tag = "pending" THEN [st |-> st, ret |-> Suspended]
    ELSE IF ret.tag = "err"
    THEN [st |-> [st EXCEPT !.failed = ret.e], ret |-> Failed(ret.e)]
    ELSE IF ret.n = 0
    THEN IF st.eof THEN [st |-> st, ret |-> EndOfSequence]
         ELSE [st |-> [st EXCEPT !.eof = TRUE, !.is_readable = TRUE], ret |-> Again]
    ELSE [st |-> [st EXCEPT !.is_readable = TRUE], ret |-> Again]

\* A decoder's "need more data" that leaves the engine readable.
need_more_data_keep(st) == st

\* Step 2: the decoder needs more data: is_readable = false.
need_more_data(st) == [st EXCEPT !.is_readable = FALSE]

\* One turn of the loop.  The result: the engine's flags, the read buffer,
\* what the turn returns (Again: nothing yet), and which of decode and
\* read_into it called, with the bytes the read took from the I/O object.
poll_next(st, buf, ch, out) ==
    LET d == engine_decode(st, buf.data, ch)
        afterDecode == [buf EXCEPT !.data = d.data]
        unreadable == need_more_data(st)
        rd(s, b, decoded) ==
            LET r == poll_read_buf(b, out)
                a == engine_after_read(s, r.ret)
            IN [st |-> a.st, buf |-> r.buf, ret |-> a.ret, decoded |-> decoded,
                polls |-> r.polls, read |-> r.ret,
                took |-> IF r.ret.tag = "ok" THEN r.ret.n ELSE 0]
        done(s, b, ret, decoded) ==
            [st |-> s, buf |-> b, ret |-> ret, decoded |-> decoded,
             polls |-> 0, read |-> Pending, took |-> 0]
    IN IF st.failed # "none" THEN done(st, buf, Failed(st.failed), 0)
       ELSE IF st.is_readable
       THEN IF d.ret.tag = "err"
            THEN done([st EXCEPT !.failed = d.ret.e], afterDecode, Failed(d.ret.e), 1)
            ELSE IF d.ret.tag = "some"
            THEN done(st, afterDecode, Frame(d.ret.frame), 1)
            ELSE IF st.eof
            THEN done(unreadable, afterDecode, EndOfSequence, 1)
            ELSE rd(unreadable, afterDecode, 1)
       ELSE rd(st, buf, 0)

\* The decisions open to the codec in one turn: those of decode when the
\* turn calls an arbitrary decoder, else none.
EngineChoices(st, data) ==
    IF st.codec = "any" /\ st.is_readable /\ st.failed = "none"
    THEN DecodeChoices(data)
    ELSE {[tag |-> "none", k |-> 0, e |-> "malformed"]}

\* The byte strings delivered to the engine under each codec.
EngineStreams(codec) ==
    IF codec = "any" THEN BSeq(Byte, MaxAnyInput)
    ELSE BSeq(Byte, MaxInput) \cup {Example}

\* What one poll_read can do for the engine: as for any caller, and a
\* source that can be resumed (a FIFO) may once report zero bytes while it
\* has more to deliver.  chunks records that read as a chunk of size 0.
EngineReadOutcomes(len) ==
    ReadOutcomes(len)
    \cup (IF input # <<>> /\ \A i \in 1..Len(chunks) : chunks[i] > 0
          THEN {[tag |-> "ok", bytes |-> <<>>, e |-> "none"]}
          ELSE {})

InitFramed ==
    /\ \E c \in EngineCodecs :
          /\ framed = [codec |-> c, eof |-> FALSE, is_readable |-> FALSE, failed |-> "none"]
          /\ stream \in EngineStreams(c)
    /\ input = stream
    /\ \E cap \in {0, Len(stream)} :
          rbuf = [data |-> <<>>, spare |-> Rep(UNINIT, cap), growable |-> TRUE]
    /\ chunks = <<>>
    /\ yielded = <<>>
    /\ pcall = NoCall
    /\ rcall = NoCall
    /\ dcall = NoCall
    /\ IdleView
    /\ IdleWrite

\* One turn of the loop of "get next frame"; the caller asks for at most
\* MaxYield frames.
PollNext ==
    /\ Len(yielded) < MaxYield
    /\ \E ch \in EngineChoices(framed, rbuf.data),
          out \in EngineReadOutcomes(ReadOffer(rbuf)) :
        LET r == poll_next(framed, rbuf, ch, out)
        IN /\ framed' = r.st
           /\ rbuf' = r.buf
           /\ input' = Drop(input, r.took)
           /\ chunks' = IF r.took > 0 \/ (r.polls = 1 /\ r.read = ReadyOk(0) /\ input # <<>>)
                        THEN Append(chunks, r.took) ELSE chunks
           /\ yielded' = IF r.ret.tag = "frame" THEN Append(yielded, r.ret.frame)
                         ELSE yielded
           /\ pcall' = [made |-> TRUE, before |-> framed, ret |-> r.ret,
                        decoded |-> r.decoded, polls |-> r.polls, read |-> r.read,
                        took |-> r.took, left |-> r.buf.data]
           /\ UNCHANGED <<stream, rcall, dcall, writeVars, viewVars>>

NextFramed == PollNext

SpecFramed == InitFramed /\ [][NextFramed]_vars

------------------------------------------------------------------------------
(* Claims *)

\* C1: the default decode_eof invokes decode once and maps its outcome: a
\* frame is returned as it is; Ok(None) with the buffer left empty gives
\* Ok(None); Ok(None) with bytes left in the buffer gives the trailing-bytes
\* error; an error is returned as it is.  The buffer is the one decode left.
C1_DecodeEofMapping ==
    dcall.made =>
        /\ dcall.decodes = 1
        /\ dcall.post = dcall.decoded.data
        /\ dcall.decoded.ret.tag = "some" => dcall.ret = Some(dcall.decoded.ret.frame)
        /\ (dcall.decoded.ret.tag = "none" /\ dcall.post = <<>>) => dcall.ret = None
        /\ (dcall.decoded.ret.tag = "none" /\ dcall.post # <<>>) => dcall.ret = Err(TRAILING)
        /\ dcall.decoded.ret.tag = "err" => dcall.ret = dcall.decoded.ret

\* A decoder that says Ok(None) and leaves bytes: the trailing-bytes error.
C1_Witness ==
    /\ dcall.made
    /\ dcall.codec = "any"
    /\ dcall.decoded.ret.tag = "none"
    /\ dcall.pre = dcall.post
    /\ Len(dcall.post) >= 2
    /\ dcall.ret = Err(TRAILING)

\* C2: with spare capacity, poll_read_buf polls the I/O object exactly once;
\* when that poll reports n bytes, the logical length grows by n, the bytes
\* buffered before are unchanged, the n bytes appended are those the I/O
\* object wrote, and the call returns n.
C2_ReadAppends ==
    (rcall.made /\ (rcall.pre.growable \/ Len(rcall.pre.spare) > 0)) =>
        /\ rcall.polls = 1
        /\ rcall.out.tag = "ok" =>
              LET n == Len(rcall.out.bytes)
                  old == Len(rcall.pre.data)
              IN /\ Len(rcall.post.data) = old + n
                 /\ Take(rcall.post.data, old) = rcall.pre.data
                 /\ Drop(rcall.post.data, old) = rcall.out.bytes
                 /\ rcall.ret = ReadyOk(n)
                 /\ rcall.consumed = n

\* A read of fewer bytes than offered, after bytes were already buffered.
C2_Witness ==
    /\ rcall.made
    /\ rcall.out.tag = "ok"
    /\ Len(rcall.pre.data) >= 1
    /\ Len(rcall.out.bytes) >= 1
    /\ Len(rcall.out.bytes) < rcall.offered
    /\ Len(rcall.post.data) = Len(rcall.pre.data) + Len(rcall.out.bytes)

\* C3: when the I/O object is not ready, poll_read_buf and poll_write_buf
\* return pending and the buffer's logical length, read cursor and content
\* are as before the call, and no byte left or entered the I/O object.
C3_PendingNoMutation ==
    /\ (rcall.made /\ rcall.polls = 1 /\ rcall.out.tag = "pending") =>
            /\ rcall.ret = Pending
            /\ rcall.post.data = rcall.pre.data
            /\ rcall.consumed = 0
            /\ rbuf.data = rcall.pre.data
    /\ (rcall.made /\ rcall.ret.tag = "pending") => rcall.out.tag = "pending"
    /\ (wcall.made /\ wcall.polls = 1 /\ wcall.out.tag = "pending") =>
            /\ wcall.ret = Pending
            /\ wcall.post = wcall.pre
    /\ (wcall.made /\ wcall.ret.tag = "pending") => wcall.out.tag = "pending"

\* A pending read over buffered bytes, or a pending write of a buffer in use.
C3_Witness ==
    \/ /\ rcall.made /\ rcall.ret = Pending /\ Len(rcall.pre.data) >= 2
       /\ Len(input) >= 1
    \/ /\ wcall.made /\ wcall.ret = Pending /\ Len(wcall.pre.ends) >= 2
       /\ Len(written) >= 1

\* C4: when the one read or write attempt fails, that error is returned,
\* the I/O object was polled once, and the logical length / read cursor is
\* not advanced.
C4_ErrorPropagated ==
    /\ (rcall.made /\ rcall.polls = 1 /\ rcall.out.tag = "err") =>
            /\ rcall.ret = ReadyErr(rcall.out.e)
            /\ rcall.post.data = rcall.pre.data
            /\ rcall.consumed = 0
    /\ (wcall.made /\ wcall.polls = 1 /\ wcall.out.tag = "err") =>
            /\ wcall.ret = ReadyErr(wcall.out.e)
            /\ wcall.post = wcall.pre
    /\ rcall.made => rcall.polls <= 1
    /\ wcall.made => wcall.polls <= 1

C4_Witness ==
    \/ /\ rcall.made /\ rcall.ret = ReadyErr("EIO") /\ Len(rcall.pre.data) >= 2
    \/ /\ wcall.made /\ wcall.ret = ReadyErr("EIO") /\ Len(wcall.pre.ends) >= 2
       /\ Len(written) >= 1

\* C5: with unread bytes, poll_write_buf makes one vectored write attempt
\* that offers the first min(64, segments) segments in order; on success it
\* advances the read cursor by the n bytes accepted and returns n, and the
\* bytes after the first n stay in the buffer.
C5_WriteAdvances ==
    (wcall.made /\ Len(wcall.pre.bytes) > 0) =>
        /\ wcall.polls = 1
        /\ Len(wcall.offered.ends) <= MAX_BUFS
        /\ Len(wcall.offered.ends) = Min(Len(wcall.pre.ends), MAX_BUFS)
        /\ wcall.offered.ends = Take(wcall.pre.ends, Len(wcall.offered.ends))
        /\ wcall.offered.bytes = Take(wcall.pre.bytes, Len(wcall.offered.bytes))
        /\ wcall.out.tag = "ok" =>
              /\ wcall.ret = ReadyOk(wcall.out.n)
              /\ wcall.post.bytes = Drop(wcall.pre.bytes, wcall.out.n)

\* A partial write of a buffer of more than 64 segments.
C5_Witness ==
    /\ wcall.made
    /\ Len(wcall.pre.ends) > MAX_BUFS
    /\ Len(wcall.offered.ends) = MAX_BUFS
    /\ wcall.out.tag = "ok"
    /\ wcall.out.n >= 2
    /\ wcall.post.bytes # <<>>

\* C6: the bytes accepted by the I/O object followed by the bytes still
\* buffered are the concatenation of the frames encoded so far, in the order
\* they were submitted; once every frame is encoded and the buffer is
\* drained, the bytes accepted are that concatenation.
C6_WriteOrder ==
    /\ written \o wbuf.bytes = encoded
    /\ (toSend = <<>> /\ ~has_remaining(wbuf)) => written = encoded

\* Three frames sent, the last write a partial one that followed others.
C6_Witness ==
    /\ toSend = <<>>
    /\ wbuf = EmptyBuf
    /\ written = <<"a", "nl", "a", "nl", "a">>
    /\ wcall.made
    /\ wcall.out.tag = "ok"
    /\ wcall.out.n = 1

\* C7: a write buffer of more than 64 segments, written from again and
\* again to an I/O object that accepts at least one byte whenever it is
\* ready, is eventually left with no unread bytes.
C7_Drains == <>(~has_remaining(wbuf))

C7_Witness ==
    /\ wbuf = EmptyBuf
    /\ Len(written) > MAX_BUFS
    /\ written = encoded
    /\ wcall.made
    /\ Len(wcall.pre.ends) = 1

\* C8: without spare capacity, poll_read_buf returns ready with zero, does
\* not poll the I/O object and leaves the buffer unchanged.
C8_FullBufferNoPoll ==
    (rcall.made /\ ~rcall.pre.growable /\ Len(rcall.pre.spare) = 0) =>
        /\ rcall.ret = ReadyOk(0)
        /\ rcall.polls = 0
        /\ rcall.post = rcall.pre
        /\ rcall.consumed = 0

\* A fixed-size buffer filled by earlier reads, the I/O object still holding bytes.
C8_Witness ==
    /\ rcall.made
    /\ ~rcall.pre.growable
    /\ rcall.pre.spare = <<>>
    /\ Len(rcall.pre.data) >= 2
    /\ Len(input) >= 1
    /\ rcall.ret = ReadyOk(0)

\* C9: without unread bytes, poll_write_buf returns ready with zero, does
\* not poll the I/O object and leaves the buffer unchanged.
C9_EmptyBufferNoPoll ==
    (wcall.made /\ Len(wcall.pre.bytes) = 0) =>
        /\ wcall.ret = ReadyOk(0)
        /\ wcall.polls = 0
        /\ wcall.post = wcall.pre

\* A write_from on a buffer drained by earlier writes.
C9_Witness ==
    /\ wcall.made
    /\ wcall.pre = EmptyBuf
    /\ Len(written) >= 2
    /\ wcall.ret = ReadyOk(0)


IsPrefix(s, t) == Len(s) <= Len(t) /\ s = Take(t, Len(s))

\* The frames a codec decodes from the byte string given whole, and the
\* bytes it leaves.
RECURSIVE FramesOf(_, _)
FramesOf(codec, data) ==
    LET d == decode(codec, data, NoChoice)
    IN IF d.ret.tag = "some" THEN <<d.ret.frame>> \o FramesOf(codec, d.data) ELSE <<>>

RECURSIVE RestOf(_, _)
RestOf(codec, data) ==
    LET d == decode(codec, data, NoChoice)
    IN IF d.ret.tag = "some" THEN RestOf(codec, d.data) ELSE d.data

\* C10: with the line-splitting codec, however the byte string B is split
\* into reads, the frames yielded are at every point a prefix of the lines
\* of B, and when "get next frame" reports the end of the sequence they are
\* exactly the lines of B, in order (B then ends with its last newline;
\* bytes after the last newline end the sequence with the trailing-bytes
\* error after the same frames).  b"ab\ncd\n" yields "ab", "cd", then the end.
C10_ChunkingInvariance ==
    (framed.codec = "lines" /\ \A i \in 1..Len(chunks) : chunks[i] > 0) =>
        /\ IsPrefix(yielded, FramesOf("lines", stream))
        /\ (pcall.made /\ pcall.ret = EndOfSequence) =>
                /\ yielded = FramesOf("lines", stream)
                /\ RestOf("lines", stream) = <<>>
                /\ input = <<>>
        /\ (pcall.made /\ pcall.ret = Failed(TRAILING)) =>
                /\ yielded = FramesOf("lines", stream)
                /\ RestOf("lines", stream) # <<>>
        /\ (pcall.made /\ pcall.ret = EndOfSequence /\ stream = Example) =>
                yielded = << <<"a", "b">>, <<"c", "d">> >>

\* b"ab\ncd\n" delivered as b"a" then b"b\ncd\n": "ab", "cd", then the end.
C10_Witness ==
    /\ framed.codec = "lines"
    /\ stream = Example
    /\ chunks = <<1, 5>>
    /\ yielded = << <<"a", "b">>, <<"c", "d">> >>
    /\ pcall.made
    /\ pcall.ret = EndOfSequence


C12_EofOnce ==
    /\ [](/\ (pcall.made /\ pcall.polls = 1 /\ pcall.read = ReadyOk(0)
                /\ ~pcall.before.eof) =>
                    (framed.eof /\ framed.is_readable)
          /\ (pcall.made /\ pcall.decoded = 1 /\ pcall.before.eof
                /\ pcall.ret = EndOfSequence) =>
                    (framed.eof /\ ~framed.is_readable))
    /\ [][/\ (framed.eof /\ framed.is_readable /\ framed.failed = "none") =>
                (pcall'.decoded = 1 /\ pcall'.polls = 0)
          /\ (framed.eof /\ ~framed.is_readable /\ framed.failed = "none") =>
                /\ pcall'.decoded = 0
                /\ framed'.is_readable => pcall'.took > 0]_vars

\* A source that resumed: after the end of the sequence a read returned a
\* byte, and decode_eof was called again and gave a frame.
C12_Witness ==
    /\ framed.codec = "bytes"
    /\ chunks = <<1, 0, 1>>
    /\ yielded = << <<"a">>, <<"nl">> >>
    /\ pcall.made
    /\ pcall.before.eof
    /\ pcall.decoded = 1
    /\ pcall.ret = Frame(<<"nl">>)

\* C13: a decode error or an I/O error ends the frame sequence with that
\* error: the engine keeps it, and every later call returns it without
\* calling decode, decode_eof or the underlying read.  The default
\* decode_eof's trailing-bytes error is such an error: when the source is
\* at its end and the codec leaves bytes without giving a frame, the
\* sequence ends with it.
C13_ErrorTerminates ==
    /\ [](/\ (pcall.made /\ pcall.ret.tag = "err") => framed.failed = pcall.ret.e
          /\ (pcall.made /\ pcall.decoded = 1 /\ pcall.before.eof
                /\ pcall.before.codec \in {"lines", "bytes"}
                /\ pcall.ret.tag # "frame" /\ pcall.left # <<>>) =>
                    pcall.ret = Failed(TRAILING))
    /\ [][framed.failed # "none" =>
            /\ pcall'.ret = Failed(framed.failed)
            /\ pcall'.decoded = 0
            /\ pcall'.polls = 0
            /\ framed' = framed
            /\ rbuf' = rbuf
            /\ input' = input]_vars

\* A call after the trailing-bytes error, the source still holding bytes.
C13_Witness ==
    /\ framed.codec = "lines"
    /\ framed.failed = TRAILING
    /\ pcall.made
    /\ pcall.before.failed = TRAILING
    /\ pcall.ret = Failed(TRAILING)
    /\ pcall.decoded = 0
    /\ pcall.polls = 0
    /\ Len(yielded) >= 1
    /\ input # <<>>


\* C14: a ReadBuf keeps 0 <= filled <= initialized <= capacity, and no
\* method call makes filled or initialized smaller or changes the capacity.
C14_ViewInvariant ==
    /\ [](/\ 0 <= view.filled
          /\ view.filled <= view.initialized
          /\ view.initialized <= Len(view.buf))
    /\ [][/\ view'.filled >= view.filled
          /\ view'.initialized >= view.initialized
          /\ Len(view'.buf) = Len(view.buf)]_vars

\* A request for fewer bytes than are initialized already.
C14_Witness ==
    /\ bcall.made
    /\ bcall.op = "initialize_unfilled_to"
    /\ ~bcall.panic
    /\ bcall.pre.initialized >= 2
    /\ bcall.n < bcall.pre.initialized
    /\ view.initialized = bcall.pre.initialized

\* C15: initialize_unfilled_to(n) with n <= remaining() returns the n bytes
\* from offset filled on, leaves filled as it is and has initialized >=
\* filled + n afterwards; with n > remaining() it panics and changes nothing.
C15_ClaimUnfilled ==
    (bcall.made /\ bcall.op = "initialize_unfilled_to") =>
        LET rem == Len(bcall.pre.buf) - bcall.pre.filled
        IN /\ bcall.n <= rem =>
                /\ ~bcall.panic
                /\ Len(bcall.slice) = bcall.n
                /\ bcall.slice = SubSeq(bcall.post.buf, bcall.pre.filled + 1,
                                        bcall.pre.filled + bcall.n)
                /\ bcall.post.filled = bcall.pre.filled
                /\ bcall.post.initialized >= bcall.pre.filled + bcall.n
           /\ bcall.n > rem =>
                /\ bcall.panic
                /\ bcall.post = bcall.pre

\* A request beyond remaining() on a view that is partly initialized.
C15_Witness ==
    /\ bcall.made
    /\ bcall.op = "initialize_unfilled_to"
    /\ bcall.panic
    /\ bcall.n = Len(bcall.pre.buf) + 1
    /\ bcall.pre.initialized >= 1
    /\ view = bcall.pre


Cells(q) == {q[i] : i \in 1..Len(q)}

C17_NoRezero ==
    (rcall.made /\ rcall.polls = 1) =>
        \A i \in rcall.use.wrote : rcall.use.chunk[i] = UNINIT


\* C18: BytesCodec::decode returns a frame exactly when the buffer is not
\* empty; the frame is the whole buffer and the buffer is left empty; on an
\* empty buffer it returns Ok(None) and changes nothing.  So the default
\* decode_eof of BytesCodec never gives the trailing-bytes error.
C18_BytesDecode ==
    (dcall.made /\ dcall.codec = "bytes") =>
        /\ dcall.decoded.ret.tag = "some" <=> dcall.pre # <<>>
        /\ dcall.pre # <<>> =>
              /\ dcall.decoded.ret = Some(dcall.pre)
              /\ dcall.decoded.data = <<>>
        /\ dcall.pre = <<>> =>
              /\ dcall.decoded.ret = None
              /\ dcall.decoded.data = dcall.pre
        /\ dcall.ret # Err(TRAILING)
        /\ dcall.ret.tag # "err"
        /\ dcall.post = <<>>

\* decode_eof of BytesCodec on a buffer of several bytes.
C18_Witness ==
    /\ dcall.made
    /\ dcall.codec = "bytes"
    /\ Len(dcall.pre) >= 2
    /\ dcall.ret = Some(dcall.pre)
    /\ rbuf.data = <<>>


\* C19: BytesCodec::encode puts exactly the bytes of the frame at the tail
\* of the write buffer and leaves the bytes buffered before as they are;
\* on the way from encode through the pipe to decode no byte is lost, added
\* or reordered, whatever the sizes of the writes and reads; and when
\* decode_eof has returned Ok(None) at the end of the pipe, the
\* concatenation of the decoded frames is the concatenation of the frames
\* that were encoded.
C19_BytesRoundTrip ==
    /\ wcall.made => wcall.post.bytes = wcall.pre.bytes \o wcall.frame
    /\ Flat(yielded) \o rbuf.data \o input \o wbuf.bytes = encoded
    /\ encoded \o Flat(toSend) = stream
    /\ (dcall.made /\ dcall.eof /\ dcall.ret = None) =>
          /\ toSend = <<>>
          /\ Flat(yielded) = stream

\* Two frames of one and two bytes arrive as frames of two and one bytes.
C19_Witness ==
    /\ dcall.made
    /\ dcall.eof
    /\ dcall.ret = None
    /\ stream = <<"a", "nl", "a">>
    /\ yielded = << <<"a", "nl">>, <<"a">> >>

====
